---- MODULE Spec2Model ----
(***************************************************************************)
(* Model of src/calcsun2.py: one Streamlit script run of the solar         *)
(* generation calculator.  The run reads the sidebar widgets, draws the    *)
(* orientation arrow, fetches the hourly series from PVGIS, normalises it  *)
(* (parse_pvgis_hourly_data), aggregates it (calculate_periods_generation) *)
(* and displays the summary metrics.                                       *)
(*                                                                         *)
(* Numbers.  Python floats are modelled as exact scaled integers:          *)
(*   peak_power      tenths of a kW            (5.0 kW  -> 50)             *)
(*   G(i)            W/m2, integer                                         *)
(*   T2m             degrees C, integer                                    *)
(*   power_wh        1e-4 Wh                                               *)
(*   power_kwh       1e-6 kWh                  (5.2 kWh -> 5200000)        *)
(*   a mean or a ratio is the pair [num, den] it is the quotient of; a     *)
(*   zero den is the NaN (or inf) numpy produces instead of raising.       *)
(* Latitude, longitude and tilt do not enter any modelled computation and  *)
(* are left out of the state.                                              *)
(***************************************************************************)
EXTENDS Integers, Sequences, FiniteSets, TLC

VARIABLES
    direction,      \* sidebar selectbox: the orientation label
    peak_power,     \* sidebar slider, tenths of a kW
    selected_year,  \* sidebar selectbox
    azimuth,        \* directions[direction]
    arrow,          \* [lat_offset, lon_offset] of the map arrow, 1e-6 degrees
    request,        \* the query of the GET sent to PVGIS, or None
    gets,           \* number of requests.get calls made in this run
    response,       \* what the GET produced (status / exception / body)
    data,           \* return value of get_pvgis_data
    df_hourly,      \* return value of parse_pvgis_hourly_data
    periods_data,   \* return value of calculate_periods_generation
    parse_calls,    \* calls of parse_pvgis_hourly_data in this run
    calc_calls,     \* calls of calculate_periods_generation in this run
    metrics,        \* the summary metrics shown by st.metric, or None
    errors,         \* the st.error messages shown in this run
    exception,      \* the uncaught exception that ended the run, or None
    pc              \* position of the script

vars == <<direction, peak_power, selected_year, azimuth, arrow, request, gets,
          response, data, df_hourly, periods_data, parse_calls, calc_calls,
          metrics, errors, exception, pc>>

None == "None"

(***************************************************************************)
(* Bounds of the model.                                                    *)
(***************************************************************************)
MaxLen == 2             \* longest short series a response carries
NumYears == 2           \* how many of the available years are selectable
MaxIrradiance == 1000   \* largest G(i) of a short series, W/m2
MaxYearIrradiance == 4  \* largest G(i) of a whole-year series, W/m2

(***************************************************************************)
(* Sidebar widgets.                                                        *)
(***************************************************************************)
\* directions = {"Север": 0, "Северо-Восток": 45, ...}; the labels are
\* written in English here, in the order of the dict.
directions ==
    [North |-> 0, NorthEast |-> 45, East |-> 90, SouthEast |-> 135,
     South |-> 180, SouthWest |-> 225, West |-> 270, NorthWest |-> 315]

DirectionLabels == DOMAIN directions

\* A selectbox without index shows its first option.
DefaultDirection == "North"

\* st.sidebar.slider(..., 1.0, 100.0, 5.0, 0.1), in tenths of a kW.
PeakPowerMin == 10
PeakPowerDefault == 50

\* The slider values the model selects.
PeakPowers == {PeakPowerMin, PeakPowerDefault}

\* available_years = list(range(2005, 2021))
FirstAvailableYear == 2005
LastAvailableYear == 2020
available_years == FirstAvailableYear..LastAvailableYear

\* The years the model selects: the last NumYears available ones.
Years == {y \in available_years : y > LastAvailableYear - NumYears}

(***************************************************************************)
(* Calendar arithmetic of datetime / pandas (proleptic Gregorian, ISO      *)
(* 8601 weeks).                                                            *)
(***************************************************************************)
IsLeap(y) == (y % 4 = 0 /\ y % 100 # 0) \/ y % 400 = 0

DaysInMonth(y, m) ==
    IF m = 2 THEN (IF IsLeap(y) THEN 29 ELSE 28)
    ELSE IF m \in {4, 6, 9, 11} THEN 30 ELSE 31

DaysInYear(y) == IF IsLeap(y) THEN 366 ELSE 365

\* Days of the year before the first of month m.
DaysBeforeMonth(y, m) ==
    LET common == <<0, 31, 59, 90, 120, 151, 181, 212, 243, 273, 304, 334>>
    IN  common[m] + (IF m > 2 /\ IsLeap(y) THEN 1 ELSE 0)

\* Timestamp.dayofyear
DayOfYear(y, m, d) == DaysBeforeMonth(y, m) + d

\* date.toordinal(): 0001-01-01 is day 1.
Ordinal(y, m, d) ==
    LET p == y - 1
    IN  365 * p + (p \div 4) - (p \div 100) + (p \div 400) + DayOfYear(y, m, d)

\* date.isoweekday(): Monday 1 .. Sunday 7 (0001-01-01 is a Monday).
IsoWeekday(y, m, d) == ((Ordinal(y, m, d) - 1) % 7) + 1

\* Number of ISO weeks of ISO year y: 53 when 1 January is a Thursday, or a
\* Wednesday of a leap year.
IsoWeeksInYear(y) ==
    LET jan1 == IsoWeekday(y, 1, 1)
    IN  IF jan1 = 4 \/ (jan1 = 3 /\ IsLeap(y)) THEN 53 ELSE 52

\* Timestamp.isocalendar().week: the ISO week number, without its ISO year.
IsoWeek(y, m, d) ==
    LET w == (DayOfYear(y, m, d) - IsoWeekday(y, m, d) + 10) \div 7
    IN  IF w < 1 THEN IsoWeeksInYear(y - 1)
        ELSE IF w > IsoWeeksInYear(y) THEN 1
        ELSE w

\* The month and the day of month of the n-th day of year y.
MonthOfDay(y, n) == CHOOSE m \in 1..12 :
    DaysBeforeMonth(y, m) < n /\ n <= DaysBeforeMonth(y, m) + DaysInMonth(y, m)

(***************************************************************************)
(* Timestamps on the wire: the string "YYYYMMDD:HHMM" as its sequence of   *)
(* characters.                                                             *)
(***************************************************************************)
DigitChars == <<"0", "1", "2", "3", "4", "5", "6", "7", "8", "9">>

IsDigit(c) == c \in {DigitChars[i] : i \in 1..10}

DigitValue(c) == (CHOOSE i \in 1..10 : DigitChars[i] = c) - 1

TwoDigits(n) == <<DigitChars[(n \div 10) + 1], DigitChars[(n % 10) + 1]>>

FourDigits(n) == TwoDigits(n \div 100) \o TwoDigits(n % 100)

\* The string PVGIS writes for a timestamp.
FormatTime(y, m, d, h, mi) ==
    FourDigits(y) \o TwoDigits(m) \o TwoDigits(d) \o <<":">>
        \o TwoDigits(h) \o TwoDigits(mi)

Number(s, from, to) ==
    LET RECURSIVE Acc(_, _)
        Acc(i, n) == IF i > to THEN n ELSE Acc(i + 1, 10 * n + DigitValue(s[i]))
    IN  Acc(from, 0)

\* Whether strptime accepts s under '%Y%m%d:%H%M' (for the 13-character
\* strings of the model: four, two and two digits, a colon, two and two
\* digits, with the fields in their calendar ranges).
TimeParses(s) ==
    /\ Len(s) = 13
    /\ s[9] = ":"
    /\ \A i \in (1..13) \ {9} : IsDigit(s[i])
    /\ Number(s, 5, 6) \in 1..12
    /\ Number(s, 1, 4) >= 1
    /\ Number(s, 7, 8) \in 1..DaysInMonth(Number(s, 1, 4), Number(s, 5, 6))
    /\ Number(s, 10, 11) \in 0..23
    /\ Number(s, 12, 13) \in 0..59

\* pd.to_datetime(s, format='%Y%m%d:%H%M') of a string that parses.
ToDatetime(s) ==
    [year |-> Number(s, 1, 4), month |-> Number(s, 5, 6), day |-> Number(s, 7, 8),
     hour |-> Number(s, 10, 11), minute |-> Number(s, 12, 13)]

(***************************************************************************)
(* What PVGIS may answer.                                                  *)
(***************************************************************************)
NoneValue == [kind |-> None]

IsNone(v) == v.kind = None

RawRecord(time, g, t) == [time |-> time, G_i |-> g, T2m |-> t]

\* Timestamps of a short series of year y: two hours of 1 January, the last
\* day of February, the last hour of the year.
GoodTimes(y) ==
    {FormatTime(y, 1, 1, 0, 10), FormatTime(y, 1, 1, 13, 10),
     FormatTime(y, 2, DaysInMonth(y, 2), 13, 10), FormatTime(y, 12, 31, 23, 10)}

\* Strings strptime rejects: a day that does not exist, a letter for a digit.
BadTimes(y) ==
    {FormatTime(y, 2, 30, 13, 10),
     [FormatTime(y, 1, 1, 13, 10) EXCEPT ![13] = "x"]}

\* The records a short series is made of.
RawRecords(y) ==
    {RawRecord(s, g, IF g = 0 THEN -5 ELSE 20) :
        s \in GoodTimes(y), g \in {0, MaxIrradiance}}
    \cup {RawRecord(FormatTime(y, 1, 1, 13, 10), MaxIrradiance \div 2, -5)}
    \cup {RawRecord(s, MaxIrradiance, 20) : s \in BadTimes(y)}

SeqsUpTo(S, n) == UNION {[1..k -> S] : k \in 0..n}

ShortSeries(y) == SeqsUpTo(RawRecords(y), MaxLen)

HoursInYear(y) == 24 * DaysInYear(y)

\* Irradiance of hour h under a profile: constant, or daylight hours only.
ProfileIrradiance(profile, h) ==
    IF profile = "dark" THEN 0
    ELSE IF profile = "flat" THEN MaxYearIrradiance
    ELSE IF h \in 6..17 THEN MaxYearIrradiance ELSE MaxYearIrradiance \div 2

Profiles == {"dark", "flat", "day"}

\* One record per hour of calendar year y, in order, stamped at minute 10.
YearSeries(y, profile) ==
    [i \in 1..HoursInYear(y) |->
        LET n == ((i - 1) \div 24) + 1
            h == (i - 1) % 24
            m == MonthOfDay(y, n)
        IN  RawRecord(FormatTime(y, m, n - DaysBeforeMonth(y, m), h, 10),
                      ProfileIrradiance(profile, h), 20)]

\* response.json() of a seriescalc answer.
JsonBody(hourly) == [kind |-> "dict", outputs |-> TRUE, hourly |-> hourly]

\* A JSON object without "outputs" (what PVGIS sends with an error).
MessageBody == [kind |-> "dict", outputs |-> FALSE, hourly |-> <<>>]

HttpResponse(status, body) == [kind |-> "response", status_code |-> status, body |-> body]

RequestException == [kind |-> "RequestException", status_code |-> 0, body |-> MessageBody]

OkStatus == 200

FailedResponses ==
    {HttpResponse(400, MessageBody), HttpResponse(500, MessageBody), RequestException}

ShortResponses(y) ==
    {HttpResponse(OkStatus, JsonBody(s)) : s \in ShortSeries(y)}
    \cup {HttpResponse(OkStatus, MessageBody)}
    \cup FailedResponses

\* The answers that carry at most one record.
BriefResponses(y) == {r \in ShortResponses(y) : Len(r.body.hourly) <= 1}

YearResponses(y) ==
    {HttpResponse(OkStatus, JsonBody(YearSeries(y, p))) : p \in Profiles}

(***************************************************************************)
(* parse_pvgis_hourly_data                                                 *)
(***************************************************************************)
SystemEfficiency == 16      \* system_efficiency = 0.16, in hundredths
PanelAreaPerKw == 65        \* peak_power * 6.5, in tenths of m2 per kW
WhPerKwh == 1000            \* df['power_wh'] / 1000

\* PowerWh with the panel area of the slider's default peak power instead of
\* the configured one.
PowerWhDefaultPeak(g, peak) == g * (PeakPowerDefault * PanelAreaPerKw) * SystemEfficiency

\* df['power_wh'] = df['G(i)'] * panel_area * system_efficiency, in 1e-4 Wh
\* (panel_area = peak * 6.5 in 1e-2 m2, the efficiency in 1e-2).
PowerWh(g, peak) == g * (peak * PanelAreaPerKw) * SystemEfficiency

\* df['power_kwh'] = df['power_wh'] / 1000, in 1e-6 kWh: n 1e-4 Wh are
\* n / 1000 1e-4 kWh, which is n / (1000 / 100) 1e-6 kWh.
PowerKwh(power_wh) == power_wh \div (WhPerKwh \div 100)

\* df['time'].dt.date, as the number yyyymmdd (which orders as dates do).
DateOf(t) == t.year * 10000 + t.month * 100 + t.day

\* One row of the frame parse_pvgis_hourly_data returns.
ParseRow(rec, peak) ==
    LET t == ToDatetime(rec.time)
        wh == PowerWh(rec.G_i, peak)
    IN  [time |-> t, G_i |-> rec.G_i, T2m |-> rec.T2m,
         date |-> DateOf(t), month |-> t.month,
         week |-> IsoWeek(t.year, t.month, t.day), hour |-> t.hour,
         day_of_year |-> DayOfYear(t.year, t.month, t.day), year |-> t.year,
         power_wh |-> wh, power_kwh |-> PowerKwh(wh)]

DataFrame(rows) == [kind |-> "DataFrame", rows |-> rows]

Raised(name) == [kind |-> name]

\* ParseResult with errors='coerce' and the unparsed rows dropped: a partial
\* frame instead of an exception.
ParseResultCoerce(d, peak) ==
    IF IsNone(d) \/ ~d.outputs THEN NoneValue
    ELSE IF Len(d.hourly) = 0 THEN Raised("KeyError")
    ELSE LET good == SelectSeq(d.hourly, LAMBDA rec : TimeParses(rec.time))
         IN  DataFrame([i \in 1..Len(good) |-> ParseRow(good[i], peak)])

\* parse_pvgis_hourly_data(d, selected_year) with the global peak_power =
\* peak: a frame, None, or the exception it raises.  pd.DataFrame([]) has no
\* 'time' column; pd.to_datetime raises on the first string it cannot parse.
ParseResult(d, peak) ==
    IF IsNone(d) \/ ~d.outputs THEN NoneValue
    ELSE IF Len(d.hourly) = 0 THEN Raised("KeyError")
    ELSE IF \E i \in 1..Len(d.hourly) : ~TimeParses(d.hourly[i].time)
         THEN Raised("ValueError")
    ELSE DataFrame([i \in 1..Len(d.hourly) |-> ParseRow(d.hourly[i], peak)])

IsException(v) == v.kind \in {"KeyError", "ValueError"}

(***************************************************************************)
(* Series arithmetic (Series.sum, .mean, .max) and DataFrame.groupby.      *)
(***************************************************************************)
RECURSIVE SumRange(_, _, _)
SumRange(s, lo, hi) ==
    IF lo > hi THEN 0
    ELSE IF lo = hi THEN s[lo]
    ELSE LET mid == lo + ((hi - lo) \div 2)
         IN  SumRange(s, lo, mid) + SumRange(s, mid + 1, hi)

\* Series.sum(): 0 for an empty series.
Sum(s) == SumRange(s, 1, Len(s))

\* Series.mean() as the quotient num / den; den = 0 is NaN.
Mean(s) == [num |-> Sum(s), den |-> Len(s)]

Larger(a, b) == IF a >= b THEN a ELSE b

RECURSIVE MaxRange(_, _, _)
MaxRange(s, lo, hi) ==
    IF lo = hi THEN s[lo]
    ELSE LET mid == lo + ((hi - lo) \div 2)
         IN  Larger(MaxRange(s, lo, mid), MaxRange(s, mid + 1, hi))

\* Series.max() as [num, den]: den = 0 is the NaN of an empty series.
Max(s) == IF Len(s) = 0 THEN [num |-> 0, den |-> 0]
          ELSE [num |-> MaxRange(s, 1, Len(s)), den |-> 1]

Column(rows, name) == [i \in 1..Len(rows) |-> rows[i][name]]

\* AggRow with 'first' instead of 'sum' for power_kwh.
AggRowFirst(key, group) ==
    [key |-> key, power_kwh |-> group[1].power_kwh,
     G_i |-> Mean(Column(group, "G_i")), T2m |-> Mean(Column(group, "T2m"))]

\* .agg({'power_kwh': 'sum', 'G(i)': 'mean', 'T2m': 'mean'}) of one group.
AggRow(key, group) ==
    [key |-> key, power_kwh |-> Sum(Column(group, "power_kwh")),
     G_i |-> Mean(Column(group, "G_i")), T2m |-> Mean(Column(group, "T2m"))]

\* The rows of a frame sorted by key, cut where the key changes: one
\* aggregated row per run of equal keys.
GroupRuns(sorted) ==
    LET n == Len(sorted)
        starts == SelectSeq([i \in 1..n |-> i],
                            LAMBDA i : i = 1 \/ sorted[i].key # sorted[i - 1].key)
        m == Len(starts)
    IN  [j \in 1..m |->
            AggRow(sorted[starts[j]].key,
                   SubSeq(sorted, starts[j],
                          IF j < m THEN starts[j + 1] - 1 ELSE n))]

\* GroupBy with sort=False: the groups in the order of first appearance.
GroupByUnsorted(rows, keys) ==
    LET items == [i \in 1..Len(rows) |->
                    [key |-> keys[i], power_kwh |-> rows[i].power_kwh,
                     G_i |-> rows[i].G_i, T2m |-> rows[i].T2m]]
        firsts == SelectSeq([i \in 1..Len(rows) |-> i],
                            LAMBDA i : \A j \in 1..(i - 1) : keys[j] # keys[i])
    IN  [j \in 1..Len(firsts) |->
            AggRow(keys[firsts[j]],
                   SelectSeq(items, LAMBDA it : it.key = keys[firsts[j]]))]

\* df.groupby(key).agg(...) with the default sort=True: keys[i] is the key
\* of row i; the result has one row per distinct key, sorted by key.
GroupBy(rows, keys) ==
    LET items == [i \in 1..Len(rows) |->
                    [key |-> keys[i], power_kwh |-> rows[i].power_kwh,
                     G_i |-> rows[i].G_i, T2m |-> rows[i].T2m]]
    IN  GroupRuns(SortSeq(items, LAMBDA a, b : a.key < b.key))

\* The key of groupby(['date', 'hour']): pairs ordered by date, then hour.
HoursPerDay == 24
DateHourKey(row) == row.date * HoursPerDay + row.hour

(***************************************************************************)
(* calculate_periods_generation                                            *)
(***************************************************************************)
HourlyTable(rows) ==
    LET g == GroupBy(rows, [i \in 1..Len(rows) |-> DateHourKey(rows[i])])
    IN  [i \in 1..Len(g) |->
            [date |-> g[i].key \div HoursPerDay, hour |-> g[i].key % HoursPerDay,
             power_kwh |-> g[i].power_kwh, G_i |-> g[i].G_i, T2m |-> g[i].T2m]]

DailyTable(rows) ==
    LET g == GroupBy(rows, Column(rows, "date"))
    IN  [i \in 1..Len(g) |->
            [date |-> g[i].key,
             power_kwh |-> g[i].power_kwh, G_i |-> g[i].G_i, T2m |-> g[i].T2m]]

WeeklyTable(rows) ==
    LET g == GroupBy(rows, Column(rows, "week"))
    IN  [i \in 1..Len(g) |->
            [week |-> g[i].key,
             power_kwh |-> g[i].power_kwh, G_i |-> g[i].G_i, T2m |-> g[i].T2m]]

MonthlyTable(rows) ==
    LET g == GroupBy(rows, Column(rows, "month"))
    IN  [i \in 1..Len(g) |->
            [month |-> g[i].key,
             power_kwh |-> g[i].power_kwh, G_i |-> g[i].G_i, T2m |-> g[i].T2m]]

\* df['power_kwh'].sum()
YearlyTotal(rows) == Sum(Column(rows, "power_kwh"))

\* The dict calculate_periods_generation(df, peak_power) returns for a
\* frame; year is the global selected_year.  The peak_power argument is not
\* used by the function.
PeriodsOf(rows, year) ==
    LET daily == DailyTable(rows)
        weekly == WeeklyTable(rows)
        monthly == MonthlyTable(rows)
    IN  [kind |-> "dict",
         hourly |-> HourlyTable(rows),
         daily |-> daily,
         weekly |-> weekly,
         monthly |-> monthly,
         yearly_total |-> YearlyTotal(rows),
         avg_hourly |-> Mean(Column(rows, "power_kwh")),
         avg_daily |-> Mean(Column(daily, "power_kwh")),
         avg_weekly |-> Mean(Column(weekly, "power_kwh")),
         avg_monthly |-> Mean(Column(monthly, "power_kwh")),
         avg_radiation |-> Mean(Column(rows, "G_i")),
         max_radiation |-> Max(Column(rows, "G_i")),
         raw_data |-> rows,
         data_year |-> IF Len(rows) > 0 THEN rows[1].year ELSE year]

\* calculate_periods_generation(df, peak_power)
Calculate(df, year) == IF IsNone(df) THEN NoneValue ELSE PeriodsOf(df.rows, year)

(***************************************************************************)
(* The map arrow.                                                          *)
(***************************************************************************)
\* round(1000 * cos(radians(a))) and round(1000 * sin(radians(a))) for the
\* angles of the directions table (cos 45 = sin 45 = 0.7071...).
CosMilli(a) ==
    CASE a \in {0} -> 1000
      [] a \in {45, 315} -> 707
      [] a \in {90, 270} -> 0
      [] a \in {135, 225} -> -707
      [] a \in {180} -> -1000

SinMilli(a) == CosMilli((a + 270) % 360)

\* lat_offset = round(0.001 * cos(angle_rad), 6) and lon_offset =
\* round(0.001 * sin(angle_rad), 6), in 1e-6 degrees; the arrow runs from
\* the marker to (lat + lat_offset, lon + lon_offset).
ArrowOf(a) == [kind |-> "arrow", lat_offset |-> CosMilli(a), lon_offset |-> SinMilli(a)]

(***************************************************************************)
(* get_pvgis_data                                                          *)
(***************************************************************************)
\* The query string of the seriescalc URL (lat, lon, angle, loss left out).
RequestOf(peak, az, year) ==
    [kind |-> "GET", peakpower |-> peak, azimuth |-> az,
     startyear |-> year, endyear |-> year]

\* GetResult without the status check: the body of any answer.
GetResultAnyStatus(r) ==
    IF r.kind = "RequestException" THEN NoneValue ELSE r.body

\* What get_pvgis_data returns for the outcome r of its requests.get.
GetResult(r) ==
    IF r.kind = "RequestException" THEN NoneValue
    ELSE IF r.status_code = OkStatus THEN r.body
    ELSE NoneValue

\* The st.error get_pvgis_data shows for the outcome r.
GetErrors(r) ==
    IF r.kind = "RequestException" THEN {"request_error"}
    ELSE IF r.status_code = OkStatus THEN {}
    ELSE {"api_status_error"}

(***************************************************************************)
(* The summary metrics.                                                    *)
(***************************************************************************)
NaiveDaysPerYear == 365     \* daily_yield = yearly_total / 365
HoursPerYear == 8760        \* peak_power * 8760

\* The values given to st.metric.  capacity_factor is yearly_total /
\* (peak_power * 8760) * 100 in 1e-3 percent, specific_generation is
\* yearly_total / peak_power in 1e-5 kWh/kW (1e-6 kWh over 1e-1 kW).
MetricsOf(p, peak) ==
    [kind |-> "metrics",
     yearly_total |-> p.yearly_total,
     avg_monthly |-> p.avg_monthly,
     avg_weekly |-> p.avg_weekly,
     avg_daily |-> p.avg_daily,
     avg_hourly |-> p.avg_hourly,
     daily_yield |-> [num |-> p.yearly_total, den |-> NaiveDaysPerYear],
     capacity_factor |-> [num |-> p.yearly_total, den |-> peak * HoursPerYear],
     specific_generation |-> [num |-> p.yearly_total, den |-> peak]]

(***************************************************************************)
(* The script run.                                                         *)
(***************************************************************************)
Init ==
    /\ direction = NoneValue
    /\ peak_power = NoneValue
    /\ selected_year = NoneValue
    /\ azimuth = NoneValue
    /\ arrow = NoneValue
    /\ request = NoneValue
    /\ gets = 0
    /\ response = NoneValue
    /\ data = NoneValue
    /\ df_hourly = NoneValue
    /\ periods_data = NoneValue
    /\ parse_calls = 0
    /\ calc_calls = 0
    /\ metrics = NoneValue
    /\ errors = {}
    /\ exception = NoneValue
    /\ pc = "start"

\* The sidebar: the widgets return the user's selections, and the azimuth is
\* looked up in the directions table.
SidebarWith(labels, peaks) ==
    /\ pc = "start"
    /\ \E d \in labels, p \in peaks, y \in Years :
        /\ direction' = d
        /\ peak_power' = p
        /\ selected_year' = y
        /\ azimuth' = directions[d]
    /\ pc' = "sidebar"
    /\ UNCHANGED <<arrow, request, gets, response, data, df_hourly, periods_data,
                   parse_calls, calc_calls, metrics, errors, exception>>

Sidebar == SidebarWith({DefaultDirection}, PeakPowers)

SidebarDefaults == SidebarWith({DefaultDirection}, {PeakPowerDefault})

SidebarAnyDirection == SidebarWith(DirectionLabels, PeakPowers)

\* The map: the arrow is drawn from the azimuth.
DrawMap ==
    /\ pc = "sidebar"
    /\ arrow' = ArrowOf(azimuth)
    /\ pc' = "map"
    /\ UNCHANGED <<direction, peak_power, selected_year, azimuth, request, gets,
                   response, data, df_hourly, periods_data, parse_calls,
                   calc_calls, metrics, errors, exception>>

\* data = get_pvgis_data(...): one requests.get, whose outcome is one of
\* answers.
FetchFrom(answers) ==
    /\ pc = "map"
    /\ request' = RequestOf(peak_power, azimuth, selected_year)
    /\ gets' = gets + 1
    /\ \E r \in answers :
        /\ response' = r
        /\ data' = GetResult(r)
        /\ errors' = errors \cup GetErrors(r)
    /\ pc' = "fetched"
    /\ UNCHANGED <<direction, peak_power, selected_year, azimuth, arrow, df_hourly,
                   periods_data, parse_calls, calc_calls, metrics, exception>>

Fetch == FetchFrom(ShortResponses(selected_year))

FetchYear == FetchFrom(YearResponses(selected_year))

FetchBrief == FetchFrom(BriefResponses(selected_year))

\* df_hourly = parse_pvgis_hourly_data(data, selected_year) if data else
\* None, and the sidebar note on its outcome.  An exception of the parser is
\* not caught: it ends the run.
Parse ==
    /\ pc = "fetched"
    /\ IF IsNone(data)
       THEN /\ df_hourly' = NoneValue
            /\ errors' = errors \cup {"load_failed"}
            /\ pc' = "parsed"
            /\ UNCHANGED <<parse_calls, exception>>
       ELSE LET res == ParseResult(data, peak_power)
            IN  /\ parse_calls' = parse_calls + 1
                /\ IF IsException(res)
                   THEN /\ exception' = res
                        /\ pc' = "crashed"
                        /\ UNCHANGED <<df_hourly, errors>>
                   ELSE /\ df_hourly' = res
                        /\ errors' = IF IsNone(res) THEN errors \cup {"load_failed"}
                                     ELSE errors
                        /\ pc' = "parsed"
                        /\ UNCHANGED exception
    /\ UNCHANGED <<direction, peak_power, selected_year, azimuth, arrow, request,
                   gets, response, data, periods_data, calc_calls, metrics>>

\* periods_data = calculate_periods_generation(df_hourly, peak_power) if
\* df_hourly is not None else None
CalculatePeriods ==
    /\ pc = "parsed"
    /\ IF IsNone(df_hourly)
       THEN /\ periods_data' = NoneValue
            /\ UNCHANGED calc_calls
       ELSE /\ periods_data' = Calculate(df_hourly, selected_year)
            /\ calc_calls' = calc_calls + 1
    /\ pc' = "calculated"
    /\ UNCHANGED <<direction, peak_power, selected_year, azimuth, arrow, request,
                   gets, response, data, df_hourly, parse_calls, metrics, errors,
                   exception>>

\* if periods_data is not None: the summary metrics; else: the error.
Display ==
    /\ pc = "calculated"
    /\ IF IsNone(periods_data)
       THEN /\ errors' = errors \cup {"fetch_failed"}
            /\ UNCHANGED metrics
       ELSE /\ metrics' = MetricsOf(periods_data, peak_power)
            /\ UNCHANGED errors
    /\ pc' = "done"
    /\ UNCHANGED <<direction, peak_power, selected_year, azimuth, arrow, request,
                   gets, response, data, df_hourly, periods_data, parse_calls,
                   calc_calls, exception>>

\* A widget changes (or st.rerun()): the script starts again from the top.
Rerun ==
    /\ pc \in {"done", "crashed"}
    /\ direction' = NoneValue
    /\ peak_power' = NoneValue
    /\ selected_year' = NoneValue
    /\ azimuth' = NoneValue
    /\ arrow' = NoneValue
    /\ request' = NoneValue
    /\ gets' = 0
    /\ response' = NoneValue
    /\ data' = NoneValue
    /\ df_hourly' = NoneValue
    /\ periods_data' = NoneValue
    /\ parse_calls' = 0
    /\ calc_calls' = 0
    /\ metrics' = NoneValue
    /\ errors' = {}
    /\ exception' = NoneValue
    /\ pc' = "start"

Next ==
    \/ Sidebar
    \/ DrawMap
    \/ Fetch
    \/ Parse
    \/ CalculatePeriods
    \/ Display
    \/ Rerun

\* The run with the orientation left at its default and a short series.
Spec == Init /\ [][Next]_vars

\* The run with any orientation, where PVGIS answers with one record at most.
NextOrientation ==
    \/ SidebarAnyDirection
    \/ DrawMap
    \/ FetchBrief
    \/ Parse
    \/ CalculatePeriods
    \/ Display
    \/ Rerun

SpecOrientation == Init /\ [][NextOrientation]_vars

\* The run with the default orientation and peak power, where PVGIS may also
\* answer with the whole year, one record per hour.
NextYear ==
    \/ SidebarDefaults
    \/ DrawMap
    \/ Fetch
    \/ FetchYear
    \/ Parse
    \/ CalculatePeriods
    \/ Display
    \/ Rerun

SpecYear == Init /\ [][NextYear]_vars

(***************************************************************************)
(* The two functions called directly, with any frame and any peak power    *)
(* (the slider of the script keeps peak_power at 1.0 or more; a direct     *)
(* caller is not held to that).                                            *)
(***************************************************************************)
UnitPeakPowers == {0} \cup PeakPowers

InitUnit ==
    /\ direction = NoneValue
    /\ peak_power \in UnitPeakPowers
    /\ selected_year \in Years
    /\ azimuth = NoneValue
    /\ arrow = NoneValue
    /\ request = NoneValue
    /\ gets = 0
    /\ response = NoneValue
    /\ data \in {JsonBody(s) : s \in ShortSeries(selected_year)}
                    \cup {MessageBody, NoneValue}
    /\ df_hourly = NoneValue
    /\ periods_data = NoneValue
    /\ parse_calls = 0
    /\ calc_calls = 0
    /\ metrics = NoneValue
    /\ errors = {}
    /\ exception = NoneValue
    /\ pc = "unit"

\* parse_pvgis_hourly_data(data, selected_year)
UnitParse ==
    /\ pc = "unit"
    /\ parse_calls' = parse_calls + 1
    /\ LET res == ParseResult(data, peak_power)
       IN  IF IsException(res)
           THEN /\ exception' = res
                /\ pc' = "unit_raised"
                /\ UNCHANGED df_hourly
           ELSE /\ df_hourly' = res
                /\ pc' = "unit_parsed"
                /\ UNCHANGED exception
    /\ UNCHANGED <<direction, peak_power, selected_year, azimuth, arrow, request,
                   gets, response, data, periods_data, calc_calls, metrics, errors>>

\* A caller that has a frame of zero rows (the columns present).
UnitEmptyFrame ==
    /\ pc = "unit"
    /\ IsNone(data)
    /\ df_hourly' = DataFrame(<<>>)
    /\ pc' = "unit_parsed"
    /\ UNCHANGED <<direction, peak_power, selected_year, azimuth, arrow, request,
                   gets, response, data, periods_data, parse_calls, calc_calls,
                   metrics, errors, exception>>

\* calculate_periods_generation(df_hourly, peak_power)
UnitCalculate ==
    /\ pc = "unit_parsed"
    /\ periods_data' = Calculate(df_hourly, selected_year)
    /\ calc_calls' = calc_calls + 1
    /\ pc' = "unit_calculated"
    /\ UNCHANGED <<direction, peak_power, selected_year, azimuth, arrow, request,
                   gets, response, data, df_hourly, parse_calls, metrics, errors,
                   exception>>

\* The ratios computed from the report (capacity_factor, specific_generation).
UnitRatios ==
    /\ pc = "unit_calculated"
    /\ ~IsNone(periods_data)
    /\ metrics' = MetricsOf(periods_data, peak_power)
    /\ pc' = "unit_done"
    /\ UNCHANGED <<direction, peak_power, selected_year, azimuth, arrow, request,
                   gets, response, data, df_hourly, periods_data, parse_calls,
                   calc_calls, errors, exception>>

NextUnit ==
    \/ UnitParse
    \/ UnitEmptyFrame
    \/ UnitCalculate
    \/ UnitRatios

SpecUnit == InitUnit /\ [][NextUnit]_vars

(***************************************************************************)
(* Properties.                                                             *)
(***************************************************************************)
\* A report has been returned by calculate_periods_generation.
HasReport == ~IsNone(periods_data)

\* The fetched body carries a series.
HasSeries == ~IsNone(data) /\ data.outputs

\* The number of records each row of a table aggregates, summed.
GroupedCount(table) == Sum([i \in 1..Len(table) |-> table[i].G_i.den])

\* C1: For a non-empty hourly series, the totalEnergyKwh of the daily table
\* summed over all dates equals yearlyTotalKwh, and so does the monthly
\* table's summed over all months: every record is in one date group and
\* one month group, none is dropped.
C1_SumConservation ==
    (HasReport /\ Len(periods_data.raw_data) > 0) =>
        /\ Sum(Column(periods_data.daily, "power_kwh")) = periods_data.yearly_total
        /\ Sum(Column(periods_data.monthly, "power_kwh")) = periods_data.yearly_total
        /\ GroupedCount(periods_data.daily) = Len(periods_data.raw_data)
        /\ GroupedCount(periods_data.monthly) = Len(periods_data.raw_data)
        /\ periods_data.yearly_total = Sum(Column(periods_data.raw_data, "power_kwh"))

\* Two records with energy on one date: the daily row adds them up.
C1_Witness ==
    /\ HasReport
    /\ Len(periods_data.raw_data) = 2
    /\ Len(periods_data.daily) = 1
    /\ periods_data.raw_data[1].power_kwh > 0
    /\ periods_data.raw_data[2].power_kwh > periods_data.raw_data[1].power_kwh

\* C2: avgDailyKwh, avgWeeklyKwh and avgMonthlyKwh are the means of their
\* own tables' totals, and no per-day average shown from the report is
\* yearlyTotalKwh divided by a fixed period count such as 365: the per-day
\* figures shown divide the total by the number of days in the daily table.
C2_AveragesOfOwnTable ==
    (pc = "done" /\ ~IsNone(metrics) /\ metrics.yearly_total > 0) =>
        /\ metrics.avg_daily = Mean(Column(periods_data.daily, "power_kwh"))
        /\ metrics.avg_weekly = Mean(Column(periods_data.weekly, "power_kwh"))
        /\ metrics.avg_monthly = Mean(Column(periods_data.monthly, "power_kwh"))
        /\ metrics.daily_yield.num = Sum(Column(periods_data.daily, "power_kwh"))
        /\ metrics.daily_yield.den = Len(periods_data.daily)

\* The series is one record per hour of the selected calendar year.
IsWholeYear ==
    /\ HasReport
    /\ Len(periods_data.raw_data) = HoursInYear(selected_year)
    /\ \A i \in {1, Len(periods_data.raw_data)} :
           /\ periods_data.raw_data[i].year = selected_year
           /\ periods_data.raw_data[i].G_i \in 0..MaxYearIrradiance
    /\ Len(periods_data.hourly) = HoursInYear(selected_year)

\* C3: For a valid input (peakPowerKw > 0, every irradiance in
\* 0..maxPossibleIrradiance, one record per hour of the selected calendar
\* year, leap years included), 0 <= capacityFactor <= 100 * (6.5 * 0.16 *
\* maxPossibleIrradiance / 1000).  With capacity_factor = num / den in 1e-3
\* percent the upper bound reads num <= 104 * maxPossibleIrradiance * den.
C3_CapacityFactorBound ==
    (pc = "done" /\ ~IsNone(metrics) /\ IsWholeYear /\ peak_power > 0) =>
        /\ metrics.capacity_factor.num >= 0
        /\ metrics.capacity_factor.num
               <= 104 * MaxYearIrradiance * metrics.capacity_factor.den

\* The compass bearing a direction label names (0 = North, clockwise).
LabelBearing(label) ==
    CASE label = "North" -> 0 [] label = "NorthEast" -> 45
      [] label = "East" -> 90 [] label = "SouthEast" -> 135
      [] label = "South" -> 180 [] label = "SouthWest" -> 225
      [] label = "West" -> 270 [] label = "NorthWest" -> 315

Sign(n) == IF n > 0 THEN 1 ELSE IF n < 0 THEN -1 ELSE 0

\* The compass bearing of an arrow that runs lat_offset to the north and
\* lon_offset to the east.
ArrowBearing(a) ==
    LET ns == Sign(a.lat_offset)
        ew == Sign(a.lon_offset)
    IN  CASE ns = 1 /\ ew = 0 -> 0 [] ns = 1 /\ ew = 1 -> 45
          [] ns = 0 /\ ew = 1 -> 90 [] ns = -1 /\ ew = 1 -> 135
          [] ns = -1 /\ ew = 0 -> 180 [] ns = -1 /\ ew = -1 -> 225
          [] ns = 0 /\ ew = -1 -> 270 [] ns = 1 /\ ew = -1 -> 315

\* The compass bearing an azimuth means to the data provider: 0 = South,
\* positive values rotating westward (90 = West).
ProviderBearing(a) == (a + 180) % 360

\* The table and the arrow agree with each other and with the compass.
ArrowMatchesLabel ==
    pc \notin {"start", "sidebar"} =>
        /\ azimuth = directions[direction]
        /\ ArrowBearing(arrow) = LabelBearing(direction)

\* C4: One azimuth convention is used everywhere: the angle looked up for a
\* label draws the arrow and is sent as azimuth, the arrow points in the
\* label's compass direction, and the value sent means that same compass
\* direction in the provider's reference (0 = South, positive westward).
C4_OneAzimuthConvention ==
    ~IsNone(request) =>
        /\ request.azimuth = directions[direction]
        /\ ArrowBearing(arrow) = LabelBearing(direction)
        /\ ProviderBearing(request.azimuth) = LabelBearing(direction)

\* The part of a report the tables, totals and averages make up.
Summary(p) ==
    [hourly |-> p.hourly, daily |-> p.daily, weekly |-> p.weekly,
     monthly |-> p.monthly, yearly_total |-> p.yearly_total,
     avg_hourly |-> p.avg_hourly, avg_daily |-> p.avg_daily,
     avg_weekly |-> p.avg_weekly, avg_monthly |-> p.avg_monthly,
     avg_radiation |-> p.avg_radiation, max_radiation |-> p.max_radiation]

Orderings(n) == {f \in [1..n -> 1..n] : \A i, j \in 1..n : f[i] = f[j] => i = j}

Permuted(s, f) == [i \in 1..Len(s) |-> s[f[i]]]

Ascending(keys) == \A i \in 1..(Len(keys) - 1) : keys[i] < keys[i + 1]

Range(s) == {s[i] : i \in 1..Len(s)}

CalledOnEmptyFrame ==
    calc_calls > 0 /\ ~IsNone(df_hourly) /\ Len(df_hourly.rows) = 0

\* C6: Aggregating a series of zero records fails with an EmptySeries error:
\* calculate_periods_generation never returns a report, zero-filled or
\* otherwise, when the record sequence is empty.
C6_EmptySeriesFails ==
    CalledOnEmptyFrame => (IsNone(periods_data) /\ exception.kind = "EmptySeries")

\* C7: When peakPowerKw is 0 or otherwise non-positive the calculation fails
\* with an InvalidConfig error before any computation: no energy value and
\* no report is produced, and capacity factor and specific generation are
\* never evaluated with a zero divisor.
C7_InvalidConfigFails ==
    (peak_power <= 0 /\ parse_calls + calc_calls > 0) =>
        /\ IsNone(df_hourly)
        /\ IsNone(periods_data)
        /\ IsNone(metrics)
        /\ exception.kind = "InvalidConfig"

\* Some record of the fetched series has a timestamp that does not parse.
HasMalformedTime ==
    HasSeries /\ \E i \in 1..Len(data.hourly) : ~TimeParses(data.hourly[i].time)

C9_EnergyFormula ==
    (HasReport /\ HasSeries) =>
        /\ Len(periods_data.raw_data) = Len(data.hourly)
        /\ \A i \in 1..Len(data.hourly) :
            LET row == periods_data.raw_data[i]
            IN  /\ row.G_i = data.hourly[i].G_i
                /\ row.power_kwh * 10 = data.hourly[i].G_i * request.peakpower * 65 * 16
                /\ row.power_kwh >= 0
                /\ (data.hourly[i].G_i = 1000 /\ request.peakpower = 50)
                       => row.power_kwh = 5200000
        /\ periods_data.avg_hourly.num = periods_data.yearly_total
        /\ periods_data.avg_hourly.den = Len(data.hourly)

\* Irradiance 1000 at 5.0 kW gives 5.2 kWh, next to a dark hour.
C9_Witness ==
    /\ HasReport
    /\ request.peakpower = 50
    /\ Len(periods_data.raw_data) = 2
    /\ periods_data.raw_data[1].G_i = 1000
    /\ periods_data.raw_data[1].power_kwh = 5200000
    /\ periods_data.raw_data[2].power_kwh = 0
    /\ periods_data.avg_hourly = [num |-> 5200000, den |-> 2]

\* The GET of this run failed: a status other than 200, or an exception.
FetchFailed ==
    ~IsNone(response)
        /\ (response.kind = "RequestException" \/ response.status_code # 200)

\* C10: The series is fetched by a single GET with no retry; when the fetch
\* fails get_pvgis_data yields no data, neither parse_pvgis_hourly_data nor
\* calculate_periods_generation is invoked in that run, no summary metric is
\* displayed and the 'fetch failed' error is shown; and the two functions
\* only ever run on a series a successful fetch returned.
C10_FetchFailure ==
    /\ gets <= 1
    /\ FetchFailed =>
        /\ IsNone(data)
        /\ parse_calls = 0 /\ calc_calls = 0
        /\ IsNone(df_hourly) /\ IsNone(periods_data) /\ IsNone(metrics)
        /\ pc # "crashed"
        /\ pc = "done" => "fetch_failed" \in errors
        /\ errors # {}
    /\ (parse_calls > 0 \/ calc_calls > 0) =>
        /\ gets = 1
        /\ response.kind = "response" /\ response.status_code = 200
        /\ data = response.body
    /\ calc_calls > 0 =>
        /\ data.outputs
        /\ Len(df_hourly.rows) = Len(response.body.hourly)

\* The request raised, and the run has ended with the error shown.
C10_Witness ==
    /\ pc = "done"
    /\ ~IsNone(response)
    /\ response.kind = "RequestException"
    /\ "fetch_failed" \in errors
    /\ IsNone(metrics)

\* The days of the year whose records the weekly row of week w aggregates.
WeekDays(rows, w) ==
    {p[2] : p \in {q \in {<<rows[i].week, rows[i].day_of_year>> : i \in 1..Len(rows)} :
                      q[1] = w}}

SetMin(S) == CHOOSE x \in S : \A y \in S : x <= y

SetMax(S) == CHOOSE x \in S : \A y \in S : x >= y

\* The days are at most 7 and follow one another without a gap.
OneCalendarWeek(days) ==
    /\ Cardinality(days) <= 7
    /\ SetMax(days) - SetMin(days) + 1 = Cardinality(days)

\* C11: For a series covering one calendar year hour by hour, every row of
\* the weekly table aggregates the records of at most 7 calendar dates, all
\* consecutive, and the rows in ascending week-number order are in
\* chronological order (the first days of January and the last days of
\* December neither share a row nor come out of order).
C11_WeeklyRowsAreWeeks ==
    IsWholeYear =>
        LET rows == periods_data.raw_data
            weekly == periods_data.weekly
        IN  /\ \A j \in 1..Len(weekly) : OneCalendarWeek(WeekDays(rows, weekly[j].week))
            /\ \A j \in 1..(Len(weekly) - 1) :
                   /\ weekly[j].week < weekly[j + 1].week
                   /\ SetMax(WeekDays(rows, weekly[j].week))
                          < SetMin(WeekDays(rows, weekly[j + 1].week))

====
